---- MODULE Spec2Model ----
(***************************************************************************)
(* Model of the ShopSentinel scan endpoint (POST /api/scan).               *)
(*                                                                         *)
(* Strings of the program are sequences of one-character strings, so that  *)
(* trimming, the two case-insensitive prefix tests and the URL parse are   *)
(* computed character by character.  An optional value (string | null,     *)
(* string | undefined) is a sequence of length 0 or 1: <<>> is null or     *)
(* undefined, <<s>> is the string s.                                       *)
(***************************************************************************)
EXTENDS Integers, Sequences, FiniteSets, TLC

VARIABLES pc, body, target, fetches, pending, httpsRes, httpRes,
          httpsEnabled, httpsHeaders, httpRedirectsToHttps, response, log

vars == <<pc, body, target, fetches, pending, httpsRes, httpRes,
          httpsEnabled, httpsHeaders, httpRedirectsToHttps, response, log>>

\* Largest number of security headers one HTTPS response carries with an
\* empty value (present but "").
MaxEmptyHeaders == 1

----------------------------------------------------------------------------
\* Characters and strings

UpperAlpha == <<"A","B","C","D","E","F","G","H","I","J","K","L","M",
                "N","O","P","Q","R","S","T","U","V","W","X","Y","Z">>
LowerAlpha == <<"a","b","c","d","e","f","g","h","i","j","k","l","m",
                "n","o","p","q","r","s","t","u","v","w","x","y","z">>

Digits == {"0","1","2","3","4","5","6","7","8","9"}

Whitespace == {" ", "\t", "\n"}

LowerChar(c) ==
  IF \E i \in 1..26 : UpperAlpha[i] = c
  THEN LowerAlpha[CHOOSE i \in 1..26 : UpperAlpha[i] = c]
  ELSE c

Lower(s) == [i \in 1..Len(s) |-> LowerChar(s[i])]

StartsWith(s, p) == Len(s) >= Len(p) /\ SubSeq(s, 1, Len(p)) = p

Null == <<>>
Some(s) == <<s>>

\* String.prototype.trim
Trim(s) ==
  LET keep == {i \in 1..Len(s) : s[i] \notin Whitespace}
  IN  IF keep = {} THEN <<>>
      ELSE SubSeq(s, CHOOSE i \in keep : \A j \in keep : i <= j,
                     CHOOSE i \in keep : \A j \in keep : i >= j)

HttpPrefix == <<"h","t","t","p",":","/","/">>
HttpsPrefix == <<"h","t","t","p","s",":","/","/">>

\* /^https?:\/\//i.test(url)
HasScheme(s) ==
  \/ StartsWith(Lower(s), HttpPrefix)
  \/ StartsWith(Lower(s), HttpsPrefix)

\* /^https:\/\//i.test(loc)
IsHttpsLocationCaseSensitive(loc) == StartsWith(loc, HttpsPrefix)

IsHttpsLocation(loc) == StartsWith(Lower(loc), HttpsPrefix)

\* Code points the URL host parser rejects (those of the model's alphabet).
ForbiddenHostChars == {" ", "\t", "\n", "<", ">", "%", "^", "|"}

\* new URL(url) for a url that starts with http:// or https:// followed by
\* [host][:port][/path]: NoUrl when the constructor throws, else the record
\* of the scheme and of u.host (lower-cased host, port kept unless it is the
\* scheme's default).
NoUrl == [valid |-> FALSE, scheme |-> <<>>, host |-> <<>>]

ParseURL(s) ==
  LET low     == Lower(s)
      isHttps == StartsWith(low, HttpsPrefix)
      scheme  == IF isHttps THEN <<"h","t","t","p","s">> ELSE <<"h","t","t","p">>
      rest    == SubSeq(s, Len(scheme) + 4, Len(s))
      stops   == {i \in 1..Len(rest) : rest[i] \in {"/", "?", "#"}}
      authEnd == IF stops = {} THEN Len(rest)
                 ELSE (CHOOSE i \in stops : \A j \in stops : i <= j) - 1
      auth    == SubSeq(rest, 1, authEnd)
      colons  == {i \in 1..Len(auth) : auth[i] = ":"}
      hostEnd == IF colons = {} THEN Len(auth)
                 ELSE (CHOOSE i \in colons : \A j \in colons : i >= j) - 1
      name    == SubSeq(auth, 1, hostEnd)
      port    == SubSeq(auth, hostEnd + 2, Len(auth))
      defPort == IF isHttps THEN <<"4","4","3">> ELSE <<"8","0">>
      okHost  == /\ Len(name) > 0
                 /\ \A i \in 1..Len(name) : name[i] \notin ForbiddenHostChars \cup {":"}
      okPort  == \A i \in 1..Len(port) : port[i] \in Digits
  IN  IF ~HasScheme(s) \/ ~okHost \/ ~okPort THEN NoUrl
      ELSE [valid  |-> TRUE,
            scheme |-> scheme,
            host   |-> IF port = <<>> \/ port = defPort THEN Lower(name)
                       ELSE Lower(name) \o <<":">> \o port]

\* normalizeUrl: NoTarget stands for the TypeError new URL throws.
NoTarget == [valid |-> FALSE, httpsUrl |-> <<>>, httpUrl |-> <<>>, host |-> <<>>]

\* normalizeUrl that never throws.
normalizeUrlUnchecked(input) ==
  LET trimmed == Trim(input)
      url     == IF ~HasScheme(trimmed) THEN HttpsPrefix \o trimmed ELSE trimmed
      u       == ParseURL(url)
  IN  [valid    |-> TRUE,
       httpsUrl |-> HttpsPrefix \o u.host \o <<"/">>,
       httpUrl  |-> HttpPrefix \o u.host \o <<"/">>,
       host     |-> u.host]

normalizeUrl(input) ==
  LET trimmed == Trim(input)
      url     == IF ~HasScheme(trimmed) THEN HttpsPrefix \o trimmed ELSE trimmed
      u       == ParseURL(url)
  IN  IF ~u.valid THEN NoTarget
      ELSE [valid    |-> TRUE,
            httpsUrl |-> HttpsPrefix \o u.host \o <<"/">>,
            httpUrl  |-> HttpPrefix \o u.host \o <<"/">>,
            host     |-> u.host]

\* toBoolHeader: !!(h && h.length > 0)
toBoolHeader(h) == h # Null /\ Len(h[1]) > 0

----------------------------------------------------------------------------
\* Requests

Str(t, s) == [t |-> t, s |-> s]

\* Values of body.url: undefined, a number, or a string.
UrlSamples ==
  { Str("undefined", <<>>),
    Str("number", <<"5">>),
    Str("string", <<>>),                                             \* ""
    Str("string", <<" ", " ">>),                                     \* "  "
    Str("string", <<"a", " ", "b">>),                                \* "a b"
    Str("string", <<"h","t","t","p",":","/","/">>),                  \* "http://"
    Str("string", <<"a",".","i","o",":","x">>),                      \* "a.io:x"
    Str("string", <<" ","A",".","i","o","/","p","?","q"," ">>),      \* " A.io/p?q "
    Str("string", <<"H","T","T","P",":","/","/","a",".","i","o",":","8">>) }
                                                                     \* "HTTP://a.io:8"

\* Request bodies: text that is not JSON, the JSON value null, or an object.
Bodies ==
  { [json |-> "invalid", url |-> Str("undefined", <<>>)],
    [json |-> "null",    url |-> Str("undefined", <<>>)] }
  \cup { [json |-> "object", url |-> u] : u \in UrlSamples }

NoBody == [json |-> "none", url |-> Str("undefined", <<>>)]

\* !url || typeof url !== "string"
UrlMissing(u) == u.t # "string" \/ u.s = <<>>

----------------------------------------------------------------------------
\* Probe outcomes

HeaderNames == <<"strict-transport-security", "content-security-policy",
                 "x-frame-options", "x-content-type-options",
                 "referrer-policy", "permissions-policy">>

HeaderValues == {Null, Some(<<>>), Some(<<"v">>)}

NoHeaders == [n \in 1..6 |-> Null]

HeaderSets ==
  {h \in [1..6 -> HeaderValues] :
     Cardinality({n \in 1..6 : h[n] = Some(<<>>)}) <= MaxEmptyHeaders}

HttpsStatuses == {200, 399, 400, 500}

\* What fetch(httpsUrl, { redirect: "follow" }) settles to: a rejection, or
\* the final response with its status and headers.
HttpsOutcomes ==
  { [threw |-> TRUE, status |-> 0, headers |-> NoHeaders] }
  \cup { [threw |-> FALSE, status |-> st, headers |-> h] :
           st \in HttpsStatuses, h \in HeaderSets }

HttpStatuses == {200, 301, 302, 303, 307, 308}

Locations ==
  { Null,
    Some(<<"h","t","t","p","s",":","/","a">>),
    Some(<<"h","t","t","p",":","/","/","a">>),
    Some(<<"h","t","t","p","s",":","/","/","a">>),
    Some(<<"H","t","T","p","S",":","/","/","b","/","c">>) }

\* What fetch(httpUrl, { redirect: "manual" }) settles to: a rejection, or
\* the first-hop response with its status and Location header.
HttpOutcomes ==
  { [threw |-> TRUE, status |-> 0, location |-> Null] }
  \cup { [threw |-> FALSE, status |-> st, location |-> l] :
           st \in HttpStatuses, l \in Locations }

----------------------------------------------------------------------------
\* Evaluation of the signals

\* res.ok || (res.status >= 200 && res.status < 400)
HttpsOk(res) ==
  (res.status >= 200 /\ res.status <= 299) \/ (res.status >= 200 /\ res.status < 400)

\* [301, 302, 307, 308].includes(res.status) && /^https:\/\//i.test(loc)
RedirectsToHttps(res) ==
  LET loc == IF res.location # Null /\ res.location[1] # <<>>
             THEN res.location[1] ELSE <<>>
  IN  res.status \in {301, 302, 307, 308} /\ IsHttpsLocation(loc)

\* const get = (name) => (httpsHeaders ? httpsHeaders.get(name) : null)
\* get that answers "" where there is no response.
getEmptyDefault(hdrs, n) == IF hdrs # Null THEN hdrs[1][n] ELSE Some(<<>>)

get(hdrs, n) == IF hdrs # Null THEN hdrs[1][n] ELSE Null

\* A finding that carries its advice whether it passes or not.
FindingAlwaysAdvice(key, ok, passMsg, failMsg, advice) ==
  [key     |-> key,
   ok      |-> ok,
   message |-> IF ok THEN passMsg ELSE failMsg,
   advice  |-> Some(advice)]

Finding(key, ok, passMsg, failMsg, advice) ==
  [key     |-> key,
   ok      |-> ok,
   message |-> IF ok THEN passMsg ELSE failMsg,
   advice  |-> IF ok THEN Null ELSE Some(advice)]

Findings(https, redirect, hsts, csp, xfo, xcto, refpol, ppol) ==
  << Finding("httpsEnabled", https,
             "HTTPS activo", "HTTPS no responde correctamente",
             "Instala un certificado TLS valido y sirve la tienda por HTTPS."),
     Finding("httpRedirectsToHttps", redirect,
             "HTTP redirige a HTTPS", "HTTP no redirige a HTTPS",
             "Configura redireccion 301/308 de http:// a https://."),
     Finding("hsts", toBoolHeader(hsts),
             "HSTS presente", "HSTS ausente",
             "Anade Strict-Transport-Security: max-age=15552000; includeSubDomains; preload."),
     Finding("csp", toBoolHeader(csp),
             "CSP presente", "CSP ausente",
             "Empieza con: Content-Security-Policy: default-src 'self'; upgrade-insecure-requests;"),
     Finding("x-frame-options", toBoolHeader(xfo),
             "X-Frame-Options presente", "X-Frame-Options ausente",
             "Usa X-Frame-Options: DENY (o SAMEORIGIN) para evitar clickjacking."),
     Finding("x-content-type-options", toBoolHeader(xcto),
             "X-Content-Type-Options presente", "X-Content-Type-Options ausente",
             "Usa X-Content-Type-Options: nosniff para bloquear MIME sniffing."),
     Finding("referrer-policy", toBoolHeader(refpol),
             "Referrer-Policy presente", "Referrer-Policy ausente",
             "Usa Referrer-Policy: strict-origin-when-cross-origin."),
     Finding("permissions-policy", toBoolHeader(ppol),
             "Permissions-Policy presente", "Permissions-Policy ausente",
             "Anade Permissions-Policy para limitar APIs (e.g. camera=(), geolocation=()).") >>

Min(a, b) == IF a <= b THEN a ELSE b
Max(a, b) == IF a >= b THEN a ELSE b

\* A JavaScript value used as a condition: an optional string is truthy when
\* it is defined and not "".
Truthy(a) == a # Null /\ a[1] # ""

IsHeaderOk(f) ==
  f.ok /\ f.key # "httpsEnabled" /\ f.key # "httpRedirectsToHttps"

\* Score whose filter does not leave out the two transport findings.
ScoreCountsAll(findings, https, redirect) ==
  LET isOk(f) == f.ok
      s0 == Len(SelectSeq(findings, isOk)) * 10
      s1 == IF https THEN s0 + 10 ELSE s0
      s2 == IF redirect THEN s1 + 10 ELSE s1
  IN  Max(0, Min(100, s2))

Score(findings, https, redirect) ==
  LET s0 == Len(SelectSeq(findings, IsHeaderOk)) * 10
      s1 == IF https THEN s0 + 10 ELSE s0
      s2 == IF redirect THEN s1 + 10 ELSE s1
  IN  Max(0, Min(100, s2))

IsFailing(f) == ~f.ok /\ Truthy(f.advice)

\* Priorities without the slice(0, 3).
PrioritiesNoCap(findings) ==
  LET failing == SelectSeq(findings, IsFailing)
  IN  [i \in 1..Len(failing) |-> [key |-> failing[i].key, advice |-> failing[i].advice[1]]]

Priorities(findings) ==
  LET failing == SelectSeq(findings, IsFailing)
      first3  == SubSeq(failing, 1, Min(3, Len(failing)))
  IN  [i \in 1..Len(first3) |-> [key |-> first3[i].key, advice |-> first3[i].advice[1]]]

Payload(host, https, redirect, hdrs) ==
  LET hsts     == get(hdrs, 1)
      csp      == get(hdrs, 2)
      xfo      == get(hdrs, 3)
      xcto     == get(hdrs, 4)
      refpol   == get(hdrs, 5)
      ppol     == get(hdrs, 6)
      findings == Findings(https, redirect, hsts, csp, xfo, xcto, refpol, ppol)
  IN  [host                 |-> host,
       httpsEnabled         |-> https,
       httpRedirectsToHttps |-> redirect,
       headers              |-> <<hsts, csp, xfo, xcto, refpol, ppol>>,
       score                |-> Score(findings, https, redirect),
       findings             |-> findings,
       priorities           |-> Priorities(findings)]

----------------------------------------------------------------------------
\* Responses

NoResponse == [status |-> 0, error |-> Null, payload |-> Null]

\* new Response(JSON.stringify(payload), { status: 200 })
OkResponse(payload) == [status |-> 200, error |-> Null, payload |-> Some(payload)]

\* new Response(JSON.stringify({ error: "Falta 'url' en el body." }), { status: 400 })
MissingUrlResponse ==
  [status |-> 400, error |-> Some("Falta 'url' en el body."), payload |-> Null]

\* Values the try block throws.
SyntaxErrorJson == [isError |-> TRUE, message |-> "Unexpected token in JSON"]
TypeErrorNullBody == [isError |-> TRUE, message |-> "Cannot read properties of null (reading 'url')"]
TypeErrorInvalidUrl == [isError |-> TRUE, message |-> "Invalid URL"]

\* catch (e): e instanceof Error ? e.message : "Error inesperado", status 400
CatchResponse(e) ==
  [status  |-> 400,
   error   |-> Some(IF e.isError THEN e.message ELSE "Error inesperado"),
   payload |-> Null]

\* What the caller can tell one response from another by: the status and
\* which fields the JSON body has.
Kind(r) == [status |-> r.status, hasError |-> r.error # Null, hasPayload |-> r.payload # Null]

Fetch(url, redirect) == [url |-> url, redirect |-> redirect]

----------------------------------------------------------------------------
\* The handler

Init ==
  /\ pc = "idle"
  /\ body = NoBody
  /\ target = NoTarget
  /\ fetches = <<>>
  /\ pending = "none"
  /\ httpsRes = Null
  /\ httpRes = Null
  /\ httpsEnabled = FALSE
  /\ httpsHeaders = Null
  /\ httpRedirectsToHttps = FALSE
  /\ response = NoResponse
  /\ log = {}

\* The handler ends with response r; cause names the path that produced it.
Return(r, cause) ==
  /\ pc' = "done"
  /\ response' = r
  /\ pending' = "none"
  /\ log' = IF cause \in {"InvalidUrl", "InternalFault"}
            THEN log \cup {[cause |-> cause, kind |-> Kind(r)]}
            ELSE log

\* POST up to the first fetch: read the body, validate url, normalize it,
\* and issue the HTTPS probe.
Begin(b) ==
  /\ pc = "idle"
  /\ body' = b
  /\ UNCHANGED <<httpsRes, httpRes, httpsEnabled, httpsHeaders, httpRedirectsToHttps>>
  /\ IF b.json = "invalid"
     THEN Return(CatchResponse(SyntaxErrorJson), "InternalFault")
          /\ UNCHANGED <<target, fetches>>
     ELSE IF b.json = "null"
     THEN Return(CatchResponse(TypeErrorNullBody), "InternalFault")
          /\ UNCHANGED <<target, fetches>>
     ELSE IF UrlMissing(b.url)
     THEN Return(MissingUrlResponse, "MissingUrl")
          /\ UNCHANGED <<target, fetches>>
     ELSE IF ~normalizeUrl(b.url.s).valid
     THEN Return(CatchResponse(TypeErrorInvalidUrl), "InvalidUrl")
          /\ UNCHANGED <<target, fetches>>
     ELSE /\ target' = normalizeUrl(b.url.s)
          /\ fetches' = Append(fetches, Fetch(target'.httpsUrl, "follow"))
          /\ pending' = "inflight"
          /\ pc' = "awaitHttps"
          /\ UNCHANGED <<response, log>>

\* The remote host stops answering the probe in flight.  The fetch carries
\* no signal and no timeout, so nothing settles it afterwards.
HostSilent ==
  /\ pc \in {"awaitHttps", "awaitHttp"}
  /\ pending = "inflight"
  /\ pending' = "never"
  /\ UNCHANGED <<pc, body, target, fetches, httpsRes, httpRes, httpsEnabled,
                 httpsHeaders, httpRedirectsToHttps, response, log>>

\* HttpsSettle that keeps the headers only of a response that counts as
\* HTTPS enabled.
HttpsSettleHeadersIfOk(o) ==
  /\ pc = "awaitHttps"
  /\ pending = "inflight"
  /\ httpsRes' = Some(o)
  /\ IF o.threw
     THEN /\ httpsEnabled' = FALSE
          /\ UNCHANGED httpsHeaders
     ELSE /\ httpsEnabled' = HttpsOk(o)
          /\ httpsHeaders' = IF HttpsOk(o) THEN Some(o.headers) ELSE Null
  /\ fetches' = Append(fetches, Fetch(target.httpUrl, "manual"))
  /\ pc' = "awaitHttp"
  /\ UNCHANGED <<body, target, pending, httpRes, httpRedirectsToHttps, response, log>>

\* The HTTPS probe settles with outcome o; the handler records the signal
\* and the headers and issues the HTTP probe.
HttpsSettle(o) ==
  /\ pc = "awaitHttps"
  /\ pending = "inflight"
  /\ httpsRes' = Some(o)
  /\ IF o.threw
     THEN /\ httpsEnabled' = FALSE
          /\ UNCHANGED httpsHeaders
     ELSE /\ httpsEnabled' = HttpsOk(o)
          /\ httpsHeaders' = Some(o.headers)
  /\ fetches' = Append(fetches, Fetch(target.httpUrl, "manual"))
  /\ pc' = "awaitHttp"
  /\ UNCHANGED <<body, target, pending, httpRes, httpRedirectsToHttps, response, log>>

\* The HTTP probe settles with outcome o; the handler evaluates the
\* findings, the score and the priorities and returns the result.
HttpSettle(o) ==
  /\ pc = "awaitHttp"
  /\ pending = "inflight"
  /\ httpRes' = Some(o)
  /\ httpRedirectsToHttps' = IF o.threw THEN FALSE ELSE RedirectsToHttps(o)
  /\ Return(OkResponse(Payload(target.host, httpsEnabled,
                               httpRedirectsToHttps', httpsHeaders)), "None")
  /\ UNCHANGED <<body, target, fetches, httpsRes, httpsEnabled, httpsHeaders>>

\* The next request starts with fresh locals.
NextRequest ==
  /\ pc = "done"
  /\ pc' = "idle"
  /\ body' = NoBody
  /\ target' = NoTarget
  /\ fetches' = <<>>
  /\ pending' = "none"
  /\ httpsRes' = Null
  /\ httpRes' = Null
  /\ httpsEnabled' = FALSE
  /\ httpsHeaders' = Null
  /\ httpRedirectsToHttps' = FALSE
  /\ response' = NoResponse
  /\ UNCHANGED log

Next ==
  \/ \E b \in Bodies : Begin(b)
  \/ HostSilent
  \/ \E o \in HttpsOutcomes : HttpsSettle(o)
  \/ \E o \in HttpOutcomes : HttpSettle(o)
  \/ NextRequest

Spec == Init /\ [][Next]_vars

\* The runtime runs every continuation that is ready: a step that stays
\* possible is eventually taken.
FairSpec == Spec /\ WF_vars(Next)

----------------------------------------------------------------------------
\* Properties

Succeeded == pc = "done" /\ response.payload # Null

Result == response.payload[1]

FindingKeys == <<"httpsEnabled", "httpRedirectsToHttps", "hsts", "csp",
                 "x-frame-options", "x-content-type-options",
                 "referrer-policy", "permissions-policy">>

OkCount(fs) == Cardinality({i \in 1..Len(fs) : fs[i].ok})

\* The index of the k-th finding of fs with ok = FALSE.
KthFailing(fs, k) ==
  CHOOSE i \in 1..Len(fs) :
    /\ ~fs[i].ok
    /\ Cardinality({j \in 1..(i - 1) : ~fs[j].ok}) = k - 1

\* C1: in every successful scan the score is in [0,100], is a multiple of
\* 10, and is 10 times the number of ok findings among the 8 findings.
C1_ScoreIsTenPerOkFinding ==
  Succeeded =>
    /\ Len(Result.findings) = 8
    /\ Result.score \in 0..100
    /\ Result.score % 10 = 0
    /\ Result.score = 10 * OkCount(Result.findings)

C1_Witness ==
  /\ Succeeded
  /\ Result.score = 50
  /\ Result.httpsEnabled
  /\ ~Result.httpRedirectsToHttps

AllHeadersSet(res) ==
  \A n \in 1..6 : res.headers[n] # Null /\ Len(res.headers[n][1]) > 0

PerfectProbes ==
  /\ httpsRes # Null /\ ~httpsRes[1].threw
  /\ httpsRes[1].status = 200
  /\ AllHeadersSet(httpsRes[1])
  /\ httpRes # Null /\ ~httpRes[1].threw
  /\ httpRes[1].status = 301
  /\ httpRes[1].location = Some(<<"h","t","t","p","s",":","/","/","a">>)

\* C2: HTTPS 200 with all six headers non-empty and HTTP 301 to an
\* https:// Location give score 100 and no priorities.
C2_PerfectScanScores100 ==
  (pc = "done" /\ PerfectProbes) =>
    /\ Succeeded
    /\ Result.score = 100
    /\ Result.priorities = <<>>

\* C3: priorities are the first min(3, number of failing findings) failing
\* findings, in the fixed finding order, each with that finding's key and
\* advice.
C3_PrioritiesArePrefixOfFailing ==
  Succeeded =>
    LET fs == Result.findings
        n  == Min(3, Len(fs) - OkCount(fs))
    IN  /\ [i \in 1..Len(fs) |-> fs[i].key] = FindingKeys
        /\ Len(Result.priorities) = n
        /\ \A k \in 1..n :
             /\ Result.priorities[k].key = fs[KthFailing(fs, k)].key
             /\ Some(Result.priorities[k].advice) = fs[KthFailing(fs, k)].advice

\* Four findings fail, the first one passes: the priorities skip the
\* passing ones and stop at three.
C3_Witness ==
  /\ Succeeded
  /\ Result.httpsEnabled
  /\ OkCount(Result.findings) = 4
  /\ ~Result.findings[2].ok /\ Result.findings[3].ok /\ ~Result.findings[4].ok
  /\ Len(Result.priorities) = 3
  /\ Result.priorities[2].key = "csp"

\* C4: a finding has advice if and only if its ok is false, and the advice
\* of a failing finding is a non-empty string.
C4_AdviceIffNotOk ==
  Succeeded =>
    \A i \in 1..Len(Result.findings) :
      LET f == Result.findings[i]
      IN  /\ (f.advice # Null) <=> ~f.ok
          /\ ~f.ok => f.advice[1] # ""

C4_Witness ==
  /\ Succeeded
  /\ \E i, j \in 1..8 :
       /\ Result.findings[i].ok /\ Result.findings[i].advice = Null
       /\ ~Result.findings[j].ok /\ Result.findings[j].advice # Null

\* C5: when the HTTPS fetch throws, whatever the HTTP probe does, the scan
\* answers 200 with httpsEnabled false, six null header values and six
\* failing header findings.
C5_HttpsFailureIsAbsorbed ==
  (pc = "done" /\ httpsRes # Null /\ httpsRes[1].threw) =>
    /\ response.status = 200
    /\ response.error = Null
    /\ Succeeded
    /\ ~Result.httpsEnabled
    /\ \A n \in 1..6 : Result.headers[n] = Null
    /\ \A i \in 3..8 : ~Result.findings[i].ok

C5_Witness ==
  /\ pc = "done"
  /\ httpsRes # Null /\ httpsRes[1].threw
  /\ httpRes # Null /\ ~httpRes[1].threw
  /\ Result.httpRedirectsToHttps

\* The url strings of UrlSamples that are empty or that new URL rejects
\* after trimming and prefixing: "", "  ", "a b", "http://", "a.io:x".
BadUrls ==
  { <<>>,
    <<" ", " ">>,
    <<"a", " ", "b">>,
    <<"h","t","t","p",":","/","/">>,
    <<"a",".","i","o",":","x">> }

BadUrlRequest == body.json = "object" /\ body.url.t = "string" /\ body.url.s \in BadUrls

\* C6: an empty or unparseable url ends the run with a 4xx response that
\* carries a message; no probe is issued and no result is produced.
C6_BadUrlIsRejectedBeforeProbing ==
  (pc # "idle" /\ BadUrlRequest) =>
    /\ pc = "done"
    /\ response.status \in 400..499
    /\ Truthy(response.error)
    /\ response.payload = Null
    /\ fetches = <<>>
    /\ httpsRes = Null /\ httpRes = Null

C6_Witness ==
  /\ pc = "done"
  /\ BadUrlRequest
  /\ body.url.s = <<"a", " ", "b">>
  /\ response.status = 400

\* C7: every scan of a valid target eventually returns a response, also
\* when the remote host never answers a probe.
C7_ScanTerminates == (pc \in {"awaitHttps", "awaitHttp"}) ~> (pc = "done")

\* /^https:\/\//i spelled out on the characters of loc.
HttpsSchemeSpelled(loc) ==
  /\ Len(loc) >= 8
  /\ loc[1] \in {"h", "H"} /\ loc[2] \in {"t", "T"} /\ loc[3] \in {"t", "T"}
  /\ loc[4] \in {"p", "P"} /\ loc[5] \in {"s", "S"}
  /\ loc[6] = ":" /\ loc[7] = "/" /\ loc[8] = "/"

\* C8: the HTTP probe is issued once with redirects not followed;
\* httpRedirectsToHttps is true exactly when it answered 301, 302, 307 or
\* 308 with a Location starting with https:// in any letter case; a missing
\* Location, another status or a failed fetch give false, and the scan still
\* answers 200.
C8_RedirectSignal ==
  (pc = "done" /\ httpRes # Null) =>
    LET o == httpRes[1]
    IN  /\ Succeeded
        /\ response.status = 200
        /\ Len(SelectSeq(fetches, LAMBDA f : f.redirect = "manual")) = 1
        /\ fetches[Len(fetches)] = Fetch(target.httpUrl, "manual")
        /\ Result.httpRedirectsToHttps <=>
             /\ ~o.threw
             /\ o.status \in {301, 302, 307, 308}
             /\ o.location # Null
             /\ HttpsSchemeSpelled(o.location[1])
        /\ Result.findings[2].ok = Result.httpRedirectsToHttps

C8_Witness ==
  /\ pc = "done"
  /\ httpRes # Null
  /\ httpRes[1].status = 308
  /\ httpRes[1].location = Some(<<"H","t","T","p","S",":","/","/","b","/","c">>)
  /\ Result.httpRedirectsToHttps

\* C9: the response to an internal fault and the response to an unparseable
\* url are never of the same kind.
C9_FaultDistinctFromInvalidUrl ==
  \A a, b \in log :
    (a.cause = "InvalidUrl" /\ b.cause = "InternalFault") => a.kind # b.kind

\* C10 as stated: whenever httpsEnabled is false, the six header values are
\* null and no header finding is ok.
C10_HeadersOnlyWhenHttpsEnabled ==
  (Succeeded /\ ~Result.httpsEnabled) =>
    /\ \A n \in 1..6 : Result.headers[n] = Null
    /\ \A i \in 3..8 : ~Result.findings[i].ok

\* C10 amended: the headers are retained whenever the HTTPS fetch returned a
\* response, whatever its status: the six values of the result are that
\* response's values, and they are all null exactly when there was no
\* response or the response carried none of them.
C10_HeadersRetainedIffResponse ==
  (Succeeded /\ httpsRes # Null) =>
    /\ httpsRes[1].threw => \A n \in 1..6 : Result.headers[n] = Null
    /\ ~httpsRes[1].threw => \A n \in 1..6 : Result.headers[n] = httpsRes[1].headers[n]
    /\ \A n \in 1..6 :
         Result.findings[n + 2].ok <=>
           /\ ~httpsRes[1].threw
           /\ httpsRes[1].headers[n] # Null
           /\ Len(httpsRes[1].headers[n][1]) > 0

C10_Witness ==
  /\ Succeeded
  /\ httpsRes # Null /\ httpsRes[1].status = 500
  /\ ~Result.httpsEnabled
  /\ Result.headers[1] = Some(<<"v">>)
  /\ Result.findings[3].ok

====
